---- MODULE Spec2Model ----
(***************************************************************************)
(* Model of point.rs (src/src/lib.rs): the two point types SimplePoint     *)
(* (i16 position, u8 colour channels) and PipelinePoint (f32 position and  *)
(* channels), their constructors, and the two conversions between them.    *)
(*                                                                         *)
(* An f32 is modelled as a record: a finite value is a scaled integer      *)
(* (v = value * Frac, so every multiple of 1/Frac is a value), and NaN and *)
(* the two infinities are separate classes.  The casts `as f32`, `as i16`  *)
(* and `as u8` are modelled by what Rust's `as` does: int -> float rounds  *)
(* to the 24-bit significand (ties to even); float -> int truncates toward *)
(* zero, saturates at the bounds of the target type and maps NaN to 0.     *)
(***************************************************************************)
EXTENDS Integers, Sequences, FiniteSets

VARIABLES chain, ctor, args

vars == <<chain, ctor, args>>

\* ------------------------------------------------------------- bounds

\* Fractional bits of the modelled f32 values (Frac = 2^FracBits steps per unit).
FracBits == 2

\* Half-width, in whole units, of the windows of f32 inputs around a centre.
Win == 4

\* Half-width of the window of i16 / u8 inputs around zero and at the type's ends.
Edge == 1

\* Conversions applied, at most, to one constructed point.
MaxConv == 3

\* ---------------------------------------------------------- constants

I16_MIN == -32768

I16_MAX == 32767

U8_MIN == 0

U8_MAX == 255

\* Significand width of an f32 (with the implicit bit).
F32_MANTISSA_BITS == 24

Frac == 2 ^ FracBits

I16 == I16_MIN .. I16_MAX

U8 == U8_MIN .. U8_MAX

\* ------------------------------------------------------------ f32 values

Fin(k) == [cls |-> "fin", v |-> k]

NaN == [cls |-> "nan", v |-> 0]

PosInf == [cls |-> "inf", v |-> 1]

NegInf == [cls |-> "inf", v |-> -1]

\* The f32 equal to the integer n.
Whole(n) == Fin(n * Frac)

Abs(n) == IF n < 0 THEN -n ELSE n

RECURSIVE BitLen(_)
BitLen(n) == IF n = 0 THEN 0 ELSE 1 + BitLen(n \div 2)

\* m rounded to `bits` significant bits, ties to even.
RoundSig(m, bits) ==
  LET a == Abs(m)
      e == BitLen(a)
  IN IF e <= bits THEN m
     ELSE LET ulp == 2 ^ (e - bits)
              q == a \div ulp
              rem == a % ulp
              up == (2 * rem > ulp) \/ (2 * rem = ulp /\ q % 2 = 1)
              r == (IF up THEN q + 1 ELSE q) * ulp
          IN IF m < 0 THEN -r ELSE r

\* Faulty variant: the pipeline type holds half-precision floats (11-bit significand).
RoundToF16(m) == RoundSig(m, 11)

\* The scaled value m as the nearest f32.
RoundToF32(m) == RoundSig(m, F32_MANTISSA_BITS)

\* `n as f32` for an i16 or u8 n.
IntAsF32(n) == Fin(RoundToF32(n * Frac))

\* Faulty variant: the narrowing floors instead of truncating.
FloorToInt(k) == k \div Frac

\* The integer part of the scaled value k: its fraction discarded.
TruncTowardZero(k) == IF k >= 0 THEN k \div Frac ELSE -((-k) \div Frac)

\* n reduced modulo the width of lo..hi (a wrapping narrowing).
Wrap(n, lo, hi) == lo + ((n - lo) % (hi - lo + 1))

Saturate(n, lo, hi) == IF n < lo THEN lo ELSE IF n > hi THEN hi ELSE n

\* Faulty variant: the narrowing wraps modulo the width of the target type
\* (as `f as i64 as i16` would) instead of saturating.
F32AsIntWrapping(f, lo, hi) ==
  CASE f.cls = "nan" -> 0
    [] f.cls = "inf" -> 0
    [] OTHER -> Wrap(TruncTowardZero(f.v), lo, hi)

\* `f as <int type lo..hi>`.
F32AsInt(f, lo, hi) ==
  CASE f.cls = "nan" -> 0
    [] f.cls = "inf" -> IF f.v > 0 THEN hi ELSE lo
    [] OTHER -> Saturate(TruncTowardZero(f.v), lo, hi)

F32AsI16(f) == F32AsInt(f, I16_MIN, I16_MAX)

F32AsU8(f) == F32AsInt(f, U8_MIN, U8_MAX)

\* -------------------------------------------------------------- points

SimplePoint(x, y, r, g, b, is_blank) ==
  [ty |-> "SimplePoint", x |-> x, y |-> y, r |-> r, g |-> g, b |-> b,
   is_blank |-> is_blank]

PipelinePoint(x, y, r, g, b, is_blank) ==
  [ty |-> "PipelinePoint", x |-> x, y |-> y, r |-> r, g |-> g, b |-> b,
   is_blank |-> is_blank]

SimplePoint_MIN_COLOR == 0

SimplePoint_MAX_COLOR == 255

PipelinePoint_MIN_COLOR == Whole(0)

PipelinePoint_MAX_COLOR == Whole(255)

\* ------------------------------------------------ SimplePoint functions

\* Faulty variant: green and blue land in each other's field.
SimplePoint_xy_rgb_swapped(x, y, r, g, b) == SimplePoint(x, y, r, b, g, FALSE)

SimplePoint_xy_rgb(x, y, r, g, b) == SimplePoint(x, y, r, g, b, FALSE)

\* Faulty variant: the blanking constructor forgets the flag.
SimplePoint_xy_blank_unflagged(x, y) == SimplePoint(x, y, 0, 0, 0, FALSE)

SimplePoint_xy_blank(x, y) == SimplePoint(x, y, 0, 0, 0, TRUE)

\* Faulty variant: x and y are widened into each other's field.
SimplePoint_into_pipeline_pt_swapped(self) ==
  PipelinePoint(IntAsF32(self.y), IntAsF32(self.x), IntAsF32(self.r),
                IntAsF32(self.g), IntAsF32(self.b), self.is_blank)

SimplePoint_into_pipeline_pt(self) ==
  PipelinePoint(IntAsF32(self.x), IntAsF32(self.y), IntAsF32(self.r),
                IntAsF32(self.g), IntAsF32(self.b), self.is_blank)

SimplePoint_xy_luma(x, y, luminance) ==
  SimplePoint(x, y, luminance, luminance, luminance, FALSE)

SimplePoint_xy_red(x, y, red) == SimplePoint(x, y, red, 0, 0, FALSE)

SimplePoint_xy_green(x, y, green) == SimplePoint(x, y, 0, green, 0, FALSE)

SimplePoint_xy_blue(x, y, blue) == SimplePoint(x, y, 0, 0, blue, FALSE)

\* Faulty variant: an "off" point is marked as a blanking point.
SimplePoint_xy_binary_blanking(x, y, on) ==
  LET c == IF on THEN SimplePoint_MAX_COLOR ELSE 0
  IN [SimplePoint_xy_rgb(x, y, c, c, c) EXCEPT !.is_blank = ~on]

SimplePoint_xy_binary(x, y, on) ==
  LET c == IF on THEN SimplePoint_MAX_COLOR ELSE 0
  IN SimplePoint_xy_rgb(x, y, c, c, c)

\* ---------------------------------------------- PipelinePoint functions

PipelinePoint_xy_rgb(x, y, r, g, b) == PipelinePoint(x, y, r, g, b, FALSE)

PipelinePoint_xy_blank(x, y) ==
  PipelinePoint(x, y, Whole(0), Whole(0), Whole(0), TRUE)

\* Faulty variant: the blank flag is derived from the colour: a black point is blank.
PipelinePoint_into_simple_pt_black_is_blank(self) ==
  LET r == F32AsU8(self.r)
      g == F32AsU8(self.g)
      b == F32AsU8(self.b)
  IN SimplePoint(F32AsI16(self.x), F32AsI16(self.y), r, g, b,
                 self.is_blank \/ (r = 0 /\ g = 0 /\ b = 0))

PipelinePoint_into_simple_pt(self) ==
  SimplePoint(F32AsI16(self.x), F32AsI16(self.y), F32AsU8(self.r),
              F32AsU8(self.g), F32AsU8(self.b), self.is_blank)

PipelinePoint_xy_luma(x, y, luminance) ==
  PipelinePoint(x, y, luminance, luminance, luminance, FALSE)

PipelinePoint_xy_red(x, y, red) ==
  PipelinePoint(x, y, red, Whole(0), Whole(0), FALSE)

\* Faulty variant: the green constructor writes the red channel.
PipelinePoint_xy_green_as_red(x, y, green) ==
  PipelinePoint(x, y, green, Whole(0), Whole(0), FALSE)

PipelinePoint_xy_green(x, y, green) ==
  PipelinePoint(x, y, Whole(0), green, Whole(0), FALSE)

PipelinePoint_xy_blue(x, y, blue) ==
  PipelinePoint(x, y, Whole(0), Whole(0), blue, FALSE)

\* Faulty variant: full power is the normalised 1.0, not 255.0.
PipelinePoint_xy_binary_unit(x, y, on) ==
  LET c == IF on THEN Whole(1) ELSE Whole(0)
  IN PipelinePoint_xy_rgb(x, y, c, c, c)

PipelinePoint_xy_binary(x, y, on) ==
  LET c == IF on THEN PipelinePoint_MAX_COLOR ELSE Whole(0)
  IN PipelinePoint_xy_rgb(x, y, c, c, c)

\* -------------------------------------------------------------- inputs

\* i16 arguments: around zero and at both ends of the type.
SCoordArgs ==
  (I16_MIN .. I16_MIN + Edge) \cup (-Edge .. Edge) \cup (I16_MAX - Edge .. I16_MAX)

\* u8 arguments: at both ends of the type.
SChanArgs == (U8_MIN .. U8_MIN + Edge) \cup (U8_MAX - Edge .. U8_MAX)

Specials == {NaN, PosInf, NegInf}

\* The f32 values within Win units of the integer c, in steps of 1/Frac.
FinWindow(c) == {Fin(k) : k \in (c - Win) * Frac .. (c + Win) * Frac}

\* f32 coordinates: fractional values around zero, around both ends of i16,
\* far outside i16 (one full i16 width away from zero), NaN and infinities.
CoordF32 ==
  FinWindow(0) \cup FinWindow(I16_MIN) \cup FinWindow(I16_MAX)
    \cup FinWindow(2 * I16_MIN) \cup FinWindow(2 * (I16_MAX + 1)) \cup Specials

\* f32 channels: fractional values around both ends of u8, one u8 width
\* below zero and above 255, NaN and infinities.
ChanF32 ==
  FinWindow(U8_MIN) \cup FinWindow(U8_MAX) \cup FinWindow(-(U8_MAX + 1))
    \cup FinWindow(2 * (U8_MAX + 1)) \cup Specials

\* f32 arguments of the constructors: the i16 (u8) arguments as floats, the
\* smallest fractions, one value past each end of the integer type, and one
\* non-finite value.
PCoordArgs ==
  {Whole(n) : n \in SCoordArgs}
    \cup {Fin(1), Fin(-1), Whole(I16_MAX + 1), Whole(I16_MIN - 1), NaN}

PChanArgs ==
  {Whole(n) : n \in SChanArgs}
    \cup {Fin(1), Whole(U8_MIN - 1), Whole(U8_MAX + 1), PosInf}

\* ------------------------------------------------------- state machine

\* chain: the constructed point followed by the result of each conversion
\* applied since; ctor: the constructor that built chain[1]; args: the
\* arguments it was called with.

Last == chain[Len(chain)]

Construct(name, a, p) ==
  /\ chain' = <<p>>
  /\ ctor' = name
  /\ args' = a

Init ==
  /\ chain = <<>>
  /\ ctor = "none"
  /\ args = <<>>

Simple_xy_rgb ==
  /\ chain = <<>>
  /\ \E x \in SCoordArgs, y \in SCoordArgs, r \in SChanArgs, g \in SChanArgs,
        b \in SChanArgs :
       Construct("xy_rgb", [x |-> x, y |-> y, r |-> r, g |-> g, b |-> b],
                 SimplePoint_xy_rgb(x, y, r, g, b))

Simple_xy_blank ==
  /\ chain = <<>>
  /\ \E x \in SCoordArgs, y \in SCoordArgs :
       Construct("xy_blank", [x |-> x, y |-> y], SimplePoint_xy_blank(x, y))

Simple_xy_luma ==
  /\ chain = <<>>
  /\ \E x \in SCoordArgs, y \in SCoordArgs, v \in SChanArgs :
       Construct("xy_luma", [x |-> x, y |-> y, v |-> v],
                 SimplePoint_xy_luma(x, y, v))

Simple_xy_red ==
  /\ chain = <<>>
  /\ \E x \in SCoordArgs, y \in SCoordArgs, v \in SChanArgs :
       Construct("xy_red", [x |-> x, y |-> y, v |-> v],
                 SimplePoint_xy_red(x, y, v))

Simple_xy_green ==
  /\ chain = <<>>
  /\ \E x \in SCoordArgs, y \in SCoordArgs, v \in SChanArgs :
       Construct("xy_green", [x |-> x, y |-> y, v |-> v],
                 SimplePoint_xy_green(x, y, v))

Simple_xy_blue ==
  /\ chain = <<>>
  /\ \E x \in SCoordArgs, y \in SCoordArgs, v \in SChanArgs :
       Construct("xy_blue", [x |-> x, y |-> y, v |-> v],
                 SimplePoint_xy_blue(x, y, v))

Simple_xy_binary ==
  /\ chain = <<>>
  /\ \E x \in SCoordArgs, y \in SCoordArgs, on \in BOOLEAN :
       Construct("xy_binary", [x |-> x, y |-> y, on |-> on],
                 SimplePoint_xy_binary(x, y, on))

Pipeline_xy_rgb ==
  /\ chain = <<>>
  /\ \E x \in PCoordArgs, y \in PCoordArgs, r \in PChanArgs, g \in PChanArgs,
        b \in PChanArgs :
       Construct("xy_rgb", [x |-> x, y |-> y, r |-> r, g |-> g, b |-> b],
                 PipelinePoint_xy_rgb(x, y, r, g, b))

Pipeline_xy_blank ==
  /\ chain = <<>>
  /\ \E x \in PCoordArgs, y \in PCoordArgs :
       Construct("xy_blank", [x |-> x, y |-> y], PipelinePoint_xy_blank(x, y))

Pipeline_xy_luma ==
  /\ chain = <<>>
  /\ \E x \in PCoordArgs, y \in PCoordArgs, v \in PChanArgs :
       Construct("xy_luma", [x |-> x, y |-> y, v |-> v],
                 PipelinePoint_xy_luma(x, y, v))

Pipeline_xy_red ==
  /\ chain = <<>>
  /\ \E x \in PCoordArgs, y \in PCoordArgs, v \in PChanArgs :
       Construct("xy_red", [x |-> x, y |-> y, v |-> v],
                 PipelinePoint_xy_red(x, y, v))

Pipeline_xy_green ==
  /\ chain = <<>>
  /\ \E x \in PCoordArgs, y \in PCoordArgs, v \in PChanArgs :
       Construct("xy_green", [x |-> x, y |-> y, v |-> v],
                 PipelinePoint_xy_green(x, y, v))

Pipeline_xy_blue ==
  /\ chain = <<>>
  /\ \E x \in PCoordArgs, y \in PCoordArgs, v \in PChanArgs :
       Construct("xy_blue", [x |-> x, y |-> y, v |-> v],
                 PipelinePoint_xy_blue(x, y, v))

Pipeline_xy_binary ==
  /\ chain = <<>>
  /\ \E x \in PCoordArgs, y \in PCoordArgs, on \in BOOLEAN :
       Construct("xy_binary", [x |-> x, y |-> y, on |-> on],
                 PipelinePoint_xy_binary(x, y, on))

\* sp.into_pipeline_pt() on the latest point.
IntoPipelinePt ==
  /\ chain # <<>>
  /\ Len(chain) <= MaxConv
  /\ Last.ty = "SimplePoint"
  /\ chain' = Append(chain, SimplePoint_into_pipeline_pt(Last))
  /\ UNCHANGED <<ctor, args>>

\* pp.into_simple_pt() on the latest point.
IntoSimplePt ==
  /\ chain # <<>>
  /\ Len(chain) <= MaxConv
  /\ Last.ty = "PipelinePoint"
  /\ chain' = Append(chain, PipelinePoint_into_simple_pt(Last))
  /\ UNCHANGED <<ctor, args>>

Next ==
  \/ Simple_xy_rgb
  \/ Simple_xy_blank
  \/ Simple_xy_luma
  \/ Simple_xy_red
  \/ Simple_xy_green
  \/ Simple_xy_blue
  \/ Simple_xy_binary
  \/ Pipeline_xy_rgb
  \/ Pipeline_xy_blank
  \/ Pipeline_xy_luma
  \/ Pipeline_xy_red
  \/ Pipeline_xy_green
  \/ Pipeline_xy_blue
  \/ Pipeline_xy_binary
  \/ IntoPipelinePt
  \/ IntoSimplePt

\* Points built by the constructors, then converted back and forth.
Spec == Init /\ [][Next]_vars

\* The zero point of each type, the base of the one-field sweeps.
SimpleZero(k) == SimplePoint(0, 0, 0, 0, 0, k)

PipelineZero(k) ==
  PipelinePoint(Whole(0), Whole(0), Whole(0), Whole(0), Whole(0), k)

\* The conversions applied to arbitrary points, written as struct literals
\* (all fields of both structs are pub).  A SimplePoint literal is any
\* combination of the sampled arguments, or the zero point with one field
\* swept over its whole type; a PipelinePoint literal is any combination of
\* the values around zero (coordinates) and of 0.0 and 255.0 (channels), or
\* the zero point with one field taking every sampled f32 value.
InitConv ==
  /\ ctor = "literal"
  /\ args = <<>>
  /\ \/ \E x \in SCoordArgs, y \in SCoordArgs, r \in SChanArgs,
           g \in SChanArgs, b \in SChanArgs, k \in BOOLEAN :
          chain = <<SimplePoint(x, y, r, g, b, k)>>
     \/ \E f \in {"x", "y"}, n \in I16, k \in BOOLEAN :
          chain = <<[SimpleZero(k) EXCEPT ![f] = n]>>
     \/ \E f \in {"r", "g", "b"}, n \in U8, k \in BOOLEAN :
          chain = <<[SimpleZero(k) EXCEPT ![f] = n]>>
     \/ \E x \in FinWindow(0), y \in FinWindow(0),
           r \in {PipelinePoint_MIN_COLOR, PipelinePoint_MAX_COLOR},
           g \in {PipelinePoint_MIN_COLOR, PipelinePoint_MAX_COLOR},
           b \in {PipelinePoint_MIN_COLOR, PipelinePoint_MAX_COLOR},
           k \in BOOLEAN :
          chain = <<PipelinePoint(x, y, r, g, b, k)>>
     \/ \E f \in {"x", "y"}, v \in CoordF32, k \in BOOLEAN :
          chain = <<[PipelineZero(k) EXCEPT ![f] = v]>>
     \/ \E f \in {"r", "g", "b"}, v \in ChanF32, k \in BOOLEAN :
          chain = <<[PipelineZero(k) EXCEPT ![f] = v]>>

NextConv ==
  \/ IntoPipelinePt
  \/ IntoSimplePt

SpecConv == InitConv /\ [][NextConv]_vars

\* --------------------------------------------------------- properties

\* The positions of the chain holding a point of type ty that has been
\* converted (its conversion's result is the next element).
Converted(ty) == {i \in 1 .. Len(chain) - 1 : chain[i].ty = ty}

\* t is k/Frac with its fractional part discarded: same sign, and less than
\* one unit nearer to zero.
IsIntegerPart(t, k) ==
  IF k >= 0
    THEN t >= 0 /\ t * Frac <= k /\ k < (t + 1) * Frac
    ELSE t <= 0 /\ (t - 1) * Frac < k /\ k <= t * Frac

\* The finite f32 v has its integer part inside lo..hi.
IntegerPartWithin(v, lo, hi) ==
  v.cls = "fin" /\ (lo - 1) * Frac < v.v /\ v.v < (hi + 1) * Frac

\* The f32 v is a number (finite or infinite) outside lo..hi.
Outside(v, lo, hi) ==
  \/ v.cls = "inf"
  \/ v.cls = "fin" /\ (v.v < lo * Frac \/ v.v > hi * Frac)

\* The bound of lo..hi nearest to a v outside it.
NearestBound(v, lo, hi) == IF v.v > 0 THEN hi ELSE lo

Lo(f) == IF f \in {"x", "y"} THEN I16_MIN ELSE U8_MIN

Hi(f) == IF f \in {"x", "y"} THEN I16_MAX ELSE U8_MAX

Numeric == {"x", "y", "r", "g", "b"}

\* C1: the round trip SimplePoint -> PipelinePoint -> SimplePoint is the
\* identity: x, y, r, g, b and is_blank all come back unchanged.
C1_RoundTripIdentity ==
  \A i \in Converted("SimplePoint") :
    i + 2 <= Len(chain) => chain[i + 2] = chain[i]

\* A blanking point at the corners of the coordinate range with a full red
\* channel has made the round trip.
C1_Witness ==
  /\ Len(chain) >= 3
  /\ chain[1] = SimplePoint(I16_MIN, I16_MAX, U8_MAX, 0, 1, TRUE)
  /\ chain[3] = chain[1]

\* C2: into_simple_pt truncates toward zero: a field whose integer part is
\* inside the target type's range narrows to that integer part (neither the
\* floor of a negative value nor the nearest integer).
C2_TruncatesTowardZero ==
  \A i \in Converted("PipelinePoint") : \A f \in Numeric :
    IntegerPartWithin(chain[i][f], Lo(f), Hi(f))
      => IsIntegerPart(chain[i + 1][f], chain[i][f].v)

\* x = -4 + 1/Frac (-3.75 with quarters), the largest value below -3, has
\* been narrowed to -3: up toward zero, not down to its floor -4.
C2_Witness ==
  \E i \in Converted("PipelinePoint") :
    /\ chain[i].x = Fin(1 - 4 * Frac)
    /\ chain[i + 1].x = -3

\* C3 as stated: into_simple_pt does not saturate: a finite field whose
\* integer part is outside the target range is not pinned to the nearest
\* bound of that range.
C3_NotPinnedToBound ==
  \A i \in Converted("PipelinePoint") : \A f \in Numeric :
    (chain[i][f].cls = "fin" /\ ~IntegerPartWithin(chain[i][f], Lo(f), Hi(f)))
      => chain[i + 1][f] # NearestBound(chain[i][f], Lo(f), Hi(f))

\* C3 as amended: the `as` casts of into_simple_pt saturate: a field whose
\* value (finite or infinite) is outside the target range narrows to the
\* nearest bound of that range.
C3_SaturatesAtBound ==
  \A i \in Converted("PipelinePoint") : \A f \in Numeric :
    Outside(chain[i][f], Lo(f), Hi(f))
      => chain[i + 1][f] = NearestBound(chain[i][f], Lo(f), Hi(f))

\* x = 65536.0, a whole i16 width above zero, has been narrowed to i16::MAX.
C3_Witness ==
  \E i \in Converted("PipelinePoint") :
    /\ chain[i].x = Whole(2 * (I16_MAX + 1))
    /\ chain[i + 1].x = I16_MAX

\* C4: into_pipeline_pt is an exact field-wise widening: every numeric field
\* of the result equals the same field of the source, and is_blank is copied.
C4_ExactWidening ==
  \A i \in Converted("SimplePoint") :
    chain[i + 1] =
      PipelinePoint(Whole(chain[i].x), Whole(chain[i].y), Whole(chain[i].r),
                    Whole(chain[i].g), Whole(chain[i].b), chain[i].is_blank)

\* A blanking point with five different field values has been widened.
C4_Witness ==
  /\ Len(chain) >= 2
  /\ chain[1] = SimplePoint(I16_MIN, I16_MAX, 1, 0, U8_MAX, TRUE)
  /\ chain[2].x = Whole(I16_MIN)
  /\ chain[2].b = Whole(U8_MAX)

MinColor(ty) ==
  IF ty = "SimplePoint" THEN SimplePoint_MIN_COLOR ELSE PipelinePoint_MIN_COLOR

MaxColor(ty) ==
  IF ty = "SimplePoint" THEN SimplePoint_MAX_COLOR ELSE PipelinePoint_MAX_COLOR

\* xy_blank of the type ty.
Blank(ty, x, y) ==
  IF ty = "SimplePoint"
    THEN SimplePoint_xy_blank(x, y)
    ELSE PipelinePoint_xy_blank(x, y)

\* C5: xy_binary(x, y, on) stores x and y, sets all channels to MAX_COLOR
\* when on and to MIN_COLOR when off, and never sets is_blank: an "off"
\* point differs from xy_blank(x, y) in is_blank and in nothing else.
C5_BinaryNeverBlank ==
  (ctor = "xy_binary" /\ chain # <<>>) =>
    LET p == chain[1]
        c == IF args.on THEN MaxColor(p.ty) ELSE MinColor(p.ty)
    IN /\ p.x = args.x /\ p.y = args.y
       /\ p.r = c /\ p.g = c /\ p.b = c
       /\ p.is_blank = FALSE
       /\ ~args.on =>
            /\ p # Blank(p.ty, args.x, args.y)
            /\ [p EXCEPT !.is_blank = TRUE] = Blank(p.ty, args.x, args.y)

\* An "off" SimplePoint has been built: black, and not blanking.
C5_Witness ==
  /\ ctor = "xy_binary"
  /\ Len(chain) = 1
  /\ chain[1].ty = "SimplePoint"
  /\ ~args.on
  /\ chain[1].r = 0 /\ chain[1].g = 0 /\ chain[1].b = 0
  /\ ~chain[1].is_blank

\* C6: xy_blank(x, y) stores x and y, sets all channels to MIN_COLOR and
\* sets is_blank.
C6_BlankConstructor ==
  (ctor = "xy_blank" /\ chain # <<>>) =>
    LET p == chain[1]
    IN /\ p.x = args.x /\ p.y = args.y
       /\ p.r = MinColor(p.ty) /\ p.g = MinColor(p.ty) /\ p.b = MinColor(p.ty)
       /\ p.is_blank = TRUE

\* A blanking SimplePoint has been built at the corners of the range.
C6_Witness ==
  /\ ctor = "xy_blank"
  /\ Len(chain) = 1
  /\ chain[1].ty = "SimplePoint"
  /\ args.x = I16_MIN /\ args.y = I16_MAX
  /\ chain[1].is_blank

\* C7: SimplePoint::xy_rgb stores its five arguments in the fields of the
\* same names and sets is_blank to false.
C7_XyRgbStoresArguments ==
  (ctor = "xy_rgb" /\ chain # <<>> /\ chain[1].ty = "SimplePoint") =>
    chain[1] = [ty |-> "SimplePoint", x |-> args.x, y |-> args.y,
                r |-> args.r, g |-> args.g, b |-> args.b, is_blank |-> FALSE]

\* xy_rgb has been called with five different arguments.
C7_Witness ==
  /\ ctor = "xy_rgb"
  /\ Len(chain) = 1
  /\ chain[1].ty = "SimplePoint"
  /\ args = [x |-> I16_MIN, y |-> I16_MAX, r |-> 0, g |-> 1, b |-> U8_MAX]
  /\ chain[1].g = 1 /\ chain[1].b = U8_MAX

\* C8: xy_red, xy_green and xy_blue each set their own channel to the given
\* value and the other two to MIN_COLOR, store x and y, and leave is_blank
\* false.
C8_SingleChannel ==
  (ctor \in {"xy_red", "xy_green", "xy_blue"} /\ chain # <<>>) =>
    LET p == chain[1]
        own == CASE ctor = "xy_red" -> "r"
                 [] ctor = "xy_green" -> "g"
                 [] ctor = "xy_blue" -> "b"
    IN /\ p.x = args.x /\ p.y = args.y
       /\ p[own] = args.v
       /\ \A f \in {"r", "g", "b"} \ {own} : p[f] = MinColor(p.ty)
       /\ p.is_blank = FALSE

\* A PipelinePoint with a full green channel only has been built.
C8_Witness ==
  /\ ctor = "xy_green"
  /\ Len(chain) = 1
  /\ chain[1].ty = "PipelinePoint"
  /\ args.v = Whole(U8_MAX)
  /\ chain[1].g = Whole(U8_MAX)
  /\ chain[1].r = Whole(0)

\* The PipelinePoint constructor of the same name, on the arguments a of a
\* SimplePoint constructor converted to floats of the same value.
Mirror(name, a) ==
  CASE name = "xy_rgb" ->
         PipelinePoint_xy_rgb(Whole(a.x), Whole(a.y), Whole(a.r), Whole(a.g),
                              Whole(a.b))
    [] name = "xy_blank" -> PipelinePoint_xy_blank(Whole(a.x), Whole(a.y))
    [] name = "xy_luma" ->
         PipelinePoint_xy_luma(Whole(a.x), Whole(a.y), Whole(a.v))
    [] name = "xy_red" ->
         PipelinePoint_xy_red(Whole(a.x), Whole(a.y), Whole(a.v))
    [] name = "xy_green" ->
         PipelinePoint_xy_green(Whole(a.x), Whole(a.y), Whole(a.v))
    [] name = "xy_blue" ->
         PipelinePoint_xy_blue(Whole(a.x), Whole(a.y), Whole(a.v))
    [] name = "xy_binary" ->
         PipelinePoint_xy_binary(Whole(a.x), Whole(a.y), a.on)

\* C9: the PipelinePoint constructors mirror the SimplePoint constructors:
\* a SimplePoint built by a constructor and widened equals the PipelinePoint
\* built by the constructor of the same name on the same numeric arguments.
C9_ConstructorsMirror ==
  (Len(chain) >= 2 /\ chain[1].ty = "SimplePoint") =>
    chain[2] = Mirror(ctor, args)

\* A full-power SimplePoint has been widened to full-power channels.
C9_Witness ==
  /\ ctor = "xy_binary"
  /\ Len(chain) >= 2
  /\ chain[1].ty = "SimplePoint"
  /\ args.on
  /\ chain[1].r = SimplePoint_MAX_COLOR
  /\ chain[2].r = PipelinePoint_MAX_COLOR

\* C10: the blank flag is fixed at construction: after any number of
\* conversions, is_blank is true exactly when the constructor was xy_blank.
C10_BlankFixedAtConstruction ==
  \A i \in 1 .. Len(chain) : chain[i].is_blank = (ctor = "xy_blank")

\* A PipelinePoint with a negative luminance has gone through every
\* conversion the bound allows: it is black now, and still not blanking.
C10_Witness ==
  /\ ctor = "xy_luma"
  /\ chain # <<>>
  /\ chain[1].ty = "PipelinePoint"
  /\ args.v = Whole(U8_MIN - 1)
  /\ Len(chain) = MaxConv + 1
  /\ \E i \in 1 .. Len(chain) :
       chain[i].ty = "SimplePoint" /\ chain[i].r = 0 /\ chain[i].g = 0
         /\ chain[i].b = 0
  /\ ~Last.is_blank

====
